---- MODULE Spec2Model ----
(***************************************************************************)
(* YieldingAsync<T> (embassy-embedded-hal/src/adapter/yielding_async.rs):  *)
(* a wrapper that forwards every I2C, SPI and NOR-flash operation to the   *)
(* wrapped driver and calls yield_now() after it.  The model follows one   *)
(* task A that owns the adapter, the wrapped driver as a recording fake    *)
(* (like tests::FakeFlash) whose calls may succeed or fail, and a second   *)
(* ready task B that the scheduler runs whenever A is suspended.           *)
(***************************************************************************)
EXTENDS Integers, Sequences, FiniteSets, TLC

\* ------------------------------------------------------------------ bounds

\* Width, in bits, of the model's u32 (the code's is 32; every address
\* computation below is taken modulo 2^AddrBits).
AddrBits == 3

\* Largest erase granularity T::ERASE_SIZE that fits the address type.
MaxEraseSize == 3

\* Largest abstract argument value of a non-erase operation.
MaxArg == 1

U32Modulus == 2 ^ AddrBits

\* u32 values: erase(from: u32, to: u32)
Addr == 0 .. (U32Modulus - 1)

\* T::ERASE_SIZE is a usize >= 1.  On a target whose usize is wider than
\* u32 it can exceed u32::MAX, hence the two values past the modulus.
EraseSizes == (1 .. MaxEraseSize) \cup {U32Modulus, U32Modulus + 1}

\* The argument tuple of a non-erase operation (address/offset and buffers).
Args == 0 .. MaxArg

\* T::Error values of the wrapped driver.
Errors == {"e1", "e2"}

\* Values capacity() of the wrapped driver can return.
Capacities == {"cap_a", "cap_b"}

Min(x, y) == IF x <= y THEN x ELSE y

CeilDiv(n, d) == (n + d - 1) \div d

\* ------------------------------------------------------------------- state

VARIABLES
    ERASE_SIZE,       \* T::ERASE_SIZE of the wrapped driver
    overflow_checks,  \* the build panics on integer overflow (debug) or wraps
    pc,               \* where task A is: "idle", "wrapped", "yield", "panicked"
    op,               \* the adapter operation in progress or last run
    iter,             \* start of the Range inside the StepBy iterator of erase
    log,              \* the calls the wrapped driver received in this operation
    yields,           \* yield_now() calls of this operation
    result,           \* what the operation returned to its caller
    running,          \* the task the scheduler is running: "A" or "B"
    owed              \* history: A completed a successful yielding-kind call
                      \* and B has not had a turn since

vars == <<ERASE_SIZE, overflow_checks, pc, op, iter, log, yields, result, running, owed>>

I2cOps == {"i2c_read", "i2c_write", "i2c_write_read", "i2c_transaction"}

SpiOps == {"spi_transfer", "spi_transfer_in_place", "spi_flush", "spi_write", "spi_read"}

NorOps == {"nor_read", "capacity", "nor_write", "erase"}

\* Yielding with the yield of NOR write (line 150) left out.
YieldingWithoutNorWrite == I2cOps \cup SpiOps \cup {"erase"}

\* Yielding with the yield of the erase loop (line 159) left out.
YieldingWithoutErase == I2cOps \cup SpiOps \cup {"nor_write"}

\* Yielding with a yield added to ReadNorFlash::read (after line 135).
YieldingWithNorRead == I2cOps \cup SpiOps \cup {"nor_write", "erase", "nor_read"}

\* Yielding with the yield of transfer_in_place (line 84) left out.
YieldingWithoutTransferInPlace ==
    (I2cOps \cup SpiOps \cup {"nor_write", "erase"}) \ {"spi_transfer_in_place"}

\* The operations whose body holds `yield_now().await` after the wrapped call:
\* lines 34, 40, 46, 56 (I2C), 78, 84, 95, 106, 117 (SPI), 150 (NOR write)
\* and 159 (erase).  ReadNorFlash::read (135-136) and capacity (140) have none.
Yielding == I2cOps \cup SpiOps \cup {"nor_write", "erase"}

\* YieldingAsync::new(wrapped): the adapter holds the driver and nothing else.
Init ==
    /\ ERASE_SIZE \in EraseSizes
    /\ overflow_checks \in BOOLEAN
    /\ pc = "idle"
    /\ op = [name |-> "none", a |-> 0, b |-> 0]
    /\ iter = 0
    /\ log = <<>>
    /\ yields = 0
    /\ result = "none"
    /\ running = "A"
    /\ owed = FALSE

\* --------------------------------------------------------------- helpers

\* `T::ERASE_SIZE as u32`: the cast keeps the low bits of the usize.
AsU32(n) == n % U32Modulus

\* `x + y` on u32 in a build without overflow checks.
WrappingAdd(x, y) == (x + y) % U32Modulus

\* `x + y` on u32 overflows.
Overflows(x, y) == x + y >= U32Modulus

\* RangeNonEmpty that takes an inverted range for a non-empty one.
RangeNonEmptyInverted(start, end) == start /= end

\* Range<u32>: `from..to` still holds an item.
RangeNonEmpty(start, end) == start < end

\* StepBy over Range<u32>: the Range's start after the item `start` was
\* taken, `step` further or at the end when that passes it (the iterator
\* advances with a checked add, it never wraps).
StepByNext(start, end, step) == IF start + step < end THEN start + step ELSE end

\* What the wrapped driver can answer on success.
OkValues(name) == IF name = "capacity" THEN Capacities ELSE {"ok"}

\* The operation kinds that hold the bus or the flash for long: bus
\* operations, storage writes and erase sub-ranges.
LongRunning == I2cOps \cup SpiOps \cup {"nor_write", "erase"}

\* Forward with the two arguments handed over in the wrong order.
ForwardSwapped(calls, name, a, b) ==
    /\ log' = Append(calls, [name |-> name, a |-> b, b |-> a, res |-> "pending"])
    /\ pc' = "wrapped"

\* `self.wrapped.<name>(a, b)`: the call reaches the wrapped driver.
Forward(calls, name, a, b) ==
    /\ log' = Append(calls, [name |-> name, a |-> a, b |-> b, res |-> "pending"])
    /\ pc' = "wrapped"

\* The operation returns r to its caller.
Return(r) ==
    /\ pc' = "idle"
    /\ result' = r

\* The wrapped call the driver is working on, if any.
InFlight == log /= <<>> /\ log[Len(log)].res = "pending"

\* The head of `for from in (from..to).step_by(T::ERASE_SIZE)` with the
\* Range at `start`, and the body up to `self.wrapped.erase(from, to)`.
EraseLoop(start, end, calls) ==
    IF ~RangeNonEmpty(start, end)
    THEN /\ Return("ok")
         /\ log' = calls
         /\ iter' = start
    ELSE IF overflow_checks /\ Overflows(start, AsU32(ERASE_SIZE))
    THEN /\ pc' = "panicked"
         /\ result' = "panic"
         /\ log' = calls
         /\ iter' = start
    ELSE /\ Forward(calls, "erase", start,
                    Min(WrappingAdd(start, AsU32(ERASE_SIZE)), end))
         /\ result' = "none"
         /\ iter' = StepByNext(start, end, ERASE_SIZE)

\* What follows a wrapped call that succeeded with v, after the yield if the
\* operation has one: the next erase iteration, or `Ok(..)`.
Continue(v, calls) ==
    IF op.name = "erase"
    THEN EraseLoop(iter, op.b, calls)
    ELSE /\ Return(v)
         /\ log' = calls
         /\ iter' = iter

\* A non-erase operation: `self.wrapped.<name>(args)`.
Delegate(name) ==
    /\ pc = "idle"
    /\ running = "A"
    /\ \E a \in Args :
        /\ op' = [name |-> name, a |-> a, b |-> 0]
        /\ Forward(<<>>, name, a, 0)
    /\ yields' = 0
    /\ result' = "none"
    /\ iter' = 0
    /\ UNCHANGED <<ERASE_SIZE, overflow_checks, running, owed>>

\* --------------------------------------------------------------- actions

I2cRead == Delegate("i2c_read")

I2cWrite == Delegate("i2c_write")

I2cWriteRead == Delegate("i2c_write_read")

I2cTransaction == Delegate("i2c_transaction")

SpiTransfer == Delegate("spi_transfer")

SpiTransferInPlace == Delegate("spi_transfer_in_place")

SpiFlush == Delegate("spi_flush")

SpiWrite == Delegate("spi_write")

SpiRead == Delegate("spi_read")

NorRead == Delegate("nor_read")

Capacity == Delegate("capacity")

NorWrite == Delegate("nor_write")

\* erase(from, to) up to its first wrapped call, or to its return.
Erase ==
    /\ pc = "idle"
    /\ running = "A"
    /\ \E from \in Addr, to \in Addr :
        /\ op' = [name |-> "erase", a |-> from, b |-> to]
        /\ EraseLoop(from, to, <<>>)
    /\ yields' = 0
    /\ UNCHANGED <<ERASE_SIZE, overflow_checks, running, owed>>

\* The wrapped call succeeds: `?` passes, then `yield_now().await` where the
\* operation has it (A is suspended and the scheduler runs B).
WrappedOk ==
    /\ pc = "wrapped"
    /\ running = "A"
    /\ \E v \in OkValues(op.name) :
        LET done == [log EXCEPT ![Len(log)].res = v] IN
        IF op.name \in Yielding
        THEN /\ log' = done
             /\ pc' = "yield"
             /\ yields' = yields + 1
             /\ running' = "B"
             /\ UNCHANGED <<result, iter>>
        ELSE /\ Continue(v, done)
             /\ UNCHANGED <<yields, running>>
    /\ owed' = (owed \/ op.name \in LongRunning)
    /\ UNCHANGED <<ERASE_SIZE, overflow_checks, op>>

\* WrappedErr that drops the error (`let _ = ...await;`) and goes on to the
\* yield as after a success.
WrappedErrIgnored ==
    /\ pc = "wrapped"
    /\ running = "A"
    /\ op.name /= "capacity"
    /\ \E e \in Errors :
        log' = [log EXCEPT ![Len(log)].res = e]
    /\ pc' = "yield"
    /\ yields' = yields + 1
    /\ running' = "B"
    /\ UNCHANGED <<ERASE_SIZE, overflow_checks, op, iter, result, owed>>

\* The wrapped call fails: `?` returns the error at once.
WrappedErr ==
    /\ pc = "wrapped"
    /\ running = "A"
    /\ op.name /= "capacity"
    /\ \E e \in Errors :
        /\ log' = [log EXCEPT ![Len(log)].res = e]
        /\ Return(e)
    /\ UNCHANGED <<ERASE_SIZE, overflow_checks, op, iter, yields, running, owed>>

\* The wrapped call is not ready: `.await` suspends A until it is polled again.
WrappedPending ==
    /\ pc = "wrapped"
    /\ running = "A"
    /\ op.name /= "capacity"
    /\ running' = "B"
    /\ UNCHANGED <<ERASE_SIZE, overflow_checks, pc, op, iter, log, yields, result, owed>>

\* A is polled again after yield_now(): `Ok(())`, or the next erase iteration.
Resume ==
    /\ pc = "yield"
    /\ running = "A"
    /\ Continue("ok", log)
    /\ UNCHANGED <<ERASE_SIZE, overflow_checks, op, yields, running, owed>>

\* The scheduler gives the other ready task its turn, then polls A again.
BTurn ==
    /\ running = "B"
    /\ running' = "A"
    /\ owed' = FALSE
    /\ UNCHANGED <<ERASE_SIZE, overflow_checks, pc, op, iter, log, yields, result>>

\* The future of the operation is dropped while A is suspended.
Cancel ==
    /\ running = "B"
    /\ pc \in {"wrapped", "yield"}
    /\ pc' = "idle"
    /\ result' = IF pc = "yield" THEN "cancelled_at_yield" ELSE "cancelled_in_call"
    /\ UNCHANGED <<ERASE_SIZE, overflow_checks, op, iter, log, yields, running, owed>>

Next ==
    \/ I2cRead
    \/ I2cWrite
    \/ I2cWriteRead
    \/ I2cTransaction
    \/ SpiTransfer
    \/ SpiTransferInPlace
    \/ SpiFlush
    \/ SpiWrite
    \/ SpiRead
    \/ NorRead
    \/ Capacity
    \/ NorWrite
    \/ Erase
    \/ WrappedOk
    \/ WrappedErr
    \/ WrappedPending
    \/ Resume
    \/ BTurn
    \/ Cancel

Spec == Init /\ [][Next]_vars

TypeOK ==
    /\ ERASE_SIZE \in EraseSizes
    /\ overflow_checks \in BOOLEAN
    /\ pc \in {"idle", "wrapped", "yield", "panicked"}
    /\ op.name \in {"none"} \cup I2cOps \cup SpiOps \cup NorOps
    /\ iter \in Addr
    /\ yields \in Nat
    /\ result \in {"none", "ok", "panic", "cancelled_at_yield", "cancelled_in_call"}
                    \cup Errors \cup Capacities
    /\ running \in {"A", "B"}
    /\ owed \in BOOLEAN

\* ------------------------------------------------- what the claims speak of

\* The (from, to) pairs of the calls in a log, in the order received.
Ranges(calls) == [i \in 1 .. Len(calls) |-> <<calls[i].a, calls[i].b>>]

\* The partition of [from, to) in steps of E: sub-range i is
\* (from + (i-1)*E, min(from + i*E, to)), for i = 1 .. ceil((to - from) / E).
Partition(from, to, E) ==
    [i \in 1 .. CeilDiv(to - from, E) |-> <<from + (i - 1) * E, Min(from + i * E, to)>>]

IsPrefix(s, t) ==
    /\ Len(s) <= Len(t)
    /\ \A i \in 1 .. Len(s) : s[i] = t[i]

\* Number of calls of a log that completed with success.
OkCount(calls) == Cardinality({i \in 1 .. Len(calls) : calls[i].res = "ok"})

\* Every call but the last one of a log succeeded.
AllButLastOk(calls) == \A i \in 1 .. Len(calls) - 1 : calls[i].res = "ok"

IsErase == op.name = "erase"

\* The erase in progress adds from' + E without passing u32::MAX, with an E
\* that fits u32.
NoOverflowCase ==
    /\ ERASE_SIZE < U32Modulus
    /\ \A i \in 1 .. CeilDiv(op.b - op.a, ERASE_SIZE) :
           op.a + i * ERASE_SIZE < U32Modulus

\* The single, non-chunked operations that yield: I2C, SPI and NOR write.
SingleOps == I2cOps \cup SpiOps \cup {"nor_write"}

\* Every adapter operation but erase.
NonEraseOps == I2cOps \cup SpiOps \cup {"nor_read", "nor_write", "capacity"}

Returned == pc = "idle" /\ result \in {"ok"} \cup Errors \cup Capacities

\* ------------------------------------------------------------------ claims

\* C1: an erase(from, to) with from <= to whose wrapped calls all succeed
\* hands the wrapped driver exactly the partition of [from, to) in steps of
\* ERASE_SIZE, in ascending order: ceil((to - from) / E) calls, sub-range i
\* being (from + (i-1)*E, min(from + i*E, to)).
C1_ExactPartition ==
    (IsErase /\ op.a <= op.b /\ result \in {"ok", "panic"})
        => /\ Ranges(log) = Partition(op.a, op.b, ERASE_SIZE)
           /\ OkCount(log) = Len(log)

\* The partition is exact whenever no from' + E passes u32::MAX.
ErasePartitionWithoutOverflow ==
    (IsErase /\ op.a <= op.b /\ NoOverflowCase /\ result /= "none"
             /\ result \notin Errors /\ result /= "cancelled_in_call"
             /\ result /= "cancelled_at_yield")
        => /\ result = "ok"
           /\ Ranges(log) = Partition(op.a, op.b, ERASE_SIZE)

\* C2: when sub-range call k of an erase fails, the wrapped driver has
\* received exactly k calls, the k-th being the failed one, erase has
\* returned that call's failure value, and the k-1 calls before it succeeded
\* and are the first k-1 sub-ranges of the partition of [from, to).
C2_EraseAbortsOnFailure ==
    IsErase
        => \A k \in 1 .. Len(log) :
            log[k].res \in Errors
                => /\ k = Len(log)
                   /\ pc = "idle"
                   /\ result = log[k].res
                   /\ \A i \in 1 .. k - 1 : log[i].res = "ok"
                   /\ IsPrefix(SubSeq(Ranges(log), 1, k - 1),
                               Partition(op.a, op.b, ERASE_SIZE))

C2_Witness == IsErase /\ result \in Errors /\ Len(log) >= 2

\* C3: a single I2C, SPI or NOR-write operation yields exactly once when its
\* wrapped call succeeds, after that call completed and before it returns,
\* and yields zero times and returns the failure when the wrapped call fails.
C3_YieldOncePerSuccess ==
    op.name \in SingleOps
        => /\ (pc = "wrapped" => yields = 0)
           /\ (pc = "yield" => /\ yields = 1
                               /\ log[1].res = "ok"
                               /\ result = "none")
           /\ (result = "ok" => yields = 1 /\ pc = "idle")
           /\ (result \in Errors => yields = 0 /\ log[1].res = result /\ pc = "idle")

C3_Witness == op.name = "nor_write" /\ result = "ok" /\ yields = 1

\* C4: in an erase every yield follows a successful sub-range call and every
\* successful sub-range call is followed by a yield before the next call
\* starts or erase returns: N successful calls give N yields, and a failing
\* call k leaves k-1 yields.
C4_EraseCallsAlternateWithYields ==
    IsErase
        => /\ AllButLastOk(log)
           /\ yields = OkCount(log)
           /\ (pc = "wrapped" => InFlight /\ yields = Len(log) - 1)
           /\ (pc = "yield" => result = "none" /\ yields = Len(log))
           /\ (result \in {"ok", "panic"} => yields = Len(log))
           /\ (result \in Errors => yields = Len(log) - 1)

C4_Witness == IsErase /\ result = "ok" /\ yields >= 2

\* C5: a non-erase operation makes exactly one call to the same operation
\* of the wrapped driver with its arguments unchanged, and returns what that
\* call returned, success value or failure value.
C5_PassThrough ==
    op.name \in NonEraseOps
        => /\ Len(log) = 1
           /\ log[1].name = op.name
           /\ log[1].a = op.a
           /\ log[1].b = op.b
           /\ (Returned => result = log[1].res)

C5_Witness == op.name = "spi_transfer" /\ op.a = MaxArg /\ result \in Errors

C7_CancelAtYieldLeavesPartitionPrefix ==
    /\ pc = "yield" => ~InFlight
    /\ result = "cancelled_at_yield"
        => /\ ~InFlight
           /\ IsErase => /\ OkCount(log) = Len(log)
                         /\ IsPrefix(Ranges(log), Partition(op.a, op.b, ERASE_SIZE))

\* At a yield point, and after a cancellation at one, every call the wrapped
\* driver received has completed with success.
NoCallInProgressAtYield ==
    (pc = "yield" \/ result = "cancelled_at_yield")
        => ~InFlight /\ OkCount(log) = Len(log)

\* C8: task A never starts a wrapped call while it owes a yield: after a
\* successful bus operation, storage write or erase sub-range, A gives up
\* its turn, and B has had a turn before A's next wrapped call.
C8_OtherTaskRunsBetweenCalls ==
    /\ pc = "wrapped" => ~owed
    /\ owed => running = "B"

C8_Witness == IsErase /\ pc = "wrapped" /\ running = "A" /\ Len(log) >= 2

\* C9: erase adds no failure of its own: it never panics, and every
\* sub-range (f, t) it forwards has from <= f < t <= to and t - f <= E.
C9_NoOverflowInErase ==
    IsErase
        => /\ result /= "panic"
           /\ \A i \in 1 .. Len(log) :
                /\ op.a <= log[i].a
                /\ log[i].a < log[i].b
                /\ log[i].b <= op.b
                /\ log[i].b - log[i].a <= ERASE_SIZE

\* C10: an erase with from >= to makes no wrapped call, yields zero times
\* and returns success.
C10_EmptyRangeIsNoOp ==
    (IsErase /\ op.a >= op.b)
        => /\ log = <<>>
           /\ yields = 0
           /\ result = "ok"
           /\ pc = "idle"

C10_Witness == IsErase /\ op.a > op.b /\ result = "ok"

====
